---- MODULE Spec2Model ----
(***************************************************************************)
(* Model of examples/vae/multi_channels_vae.py (pynet): the CI_MODE gate,  *)
(* the synthetic data generator (GeneratorUniform, SyntheticDataset,       *)
(* preprocess_and_add_noise) and the training loop train_model.            *)
(*                                                                         *)
(* Arrays are modelled as a shape together with a term saying how the      *)
(* values were computed: a block of draws of numpy's global RandomState, a *)
(* factor of an SVD, a linear map, a standardisation, a cast.  Two arrays  *)
(* are equal exactly when they were computed by the same deterministic     *)
(* operations from the same draws.  Losses are integers and epoch          *)
(* statistics are exact fractions (floating point rounding is not          *)
(* modelled).                                                              *)
(***************************************************************************)
EXTENDS Integers, Sequences, FiniteSets, TLC

(* ------------------------------ bounds --------------------------------- *)
MaxSamples == 2
MaxLatDim == 2
MaxFeats == 2
MaxChannels == 2

MaxEpochs == 2
LoaderBatch == 2

(* ------------------------- program constants --------------------------- *)
BestLossInit == 100000000
n_samples == 500
n_channels == 3
n_feats == 4
true_lat_dims == 2
snr == 10
GeneratorDefaultSeed == 100
TrainSeed == 7
ValSeed == 14
NoiseDefaultSeed == 0

VARIABLES
  pc,              \* position of the script (or "caller" when a function is driven directly)
  environ,         \* os.environ restricted to CI_MODE: <<>> (absent) or <<value>>
  np_state,        \* numpy's global RandomState
  params,          \* the module-level parameters used to build the datasets
  image_datasets,  \* phase -> SyntheticDataset (or NoDataset)
  models,          \* model name -> [built, wts, fitted, displayed]
  model_i,         \* index of the model a loop over models.items() is at
  shown,           \* plt.show() was called
  \* ---- train_model: arguments
  num_epochs, dataloaders,
  \* ---- train_model: locals
  tpc,             \* position inside train_model
  epoch, phase_i, batch_i, inputs, losses, running, epoch_stats,
  best_loss, best_model_wts,
  store,           \* objects holding weights: the model's own ("live") and the copy ("snap")
  grad,            \* the parameters' .grad: "none", "zero" or "computed"
  \* ---- history variables (not program state)
  val_hist,        \* one record per finished validation phase
  batch_log,       \* the batches of the current phase, as accounted by the statistics
  phase_log,       \* one record per finished phase
  train_end_wts,   \* the weights when the last training phase ended
  ops              \* the framework calls made for the current batch, in order

svars == <<pc, environ, models, model_i, shown>>
dvars == <<np_state, params, image_datasets>>
targs == <<num_epochs, dataloaders>>
tlocals == <<epoch, phase_i, batch_i, inputs, losses, running, epoch_stats,
             best_loss, best_model_wts, store, grad>>
thist == <<val_hist, batch_log, phase_log, train_end_wts, ops>>
tvars == <<targs, tpc, tlocals, thist>>
vars == <<svars, dvars, tvars>>

(* ------------------------------ rationals ------------------------------ *)
Rat(n, d) == [num |-> n, den |-> d]
RatInv(q) == [num |-> q.den, den |-> q.num]
RatAddInt(q, i) == [num |-> q.num + i * q.den, den |-> q.den]
\* Python's int() of a non-negative number: truncation
IntOf(q) == q.num \div q.den

(* --------------------------- numpy RandomState -------------------------- *)
\* np.random.seed(s): the state is a function of s alone
NpSeed(s) == [seed |-> s, pos |-> 0]
\* the n values drawn next from state st, and the state after drawing them
NpBlock(st, n) == [seed |-> st.seed, from |-> st.pos, n |-> n]
NpAdvance(st, n) == [st EXCEPT !.pos = @ + n]
\* the state before the first dataset is built: seeded from OS entropy, or left
\* by earlier draws (here one draw into the stream of seed 100)
EntropyStates == {[seed |-> -1, pos |-> 0], [seed |-> -2, pos |-> 0],
                  [seed |-> GeneratorDefaultSeed, pos |-> 1]}

(* ------------------------------- arrays -------------------------------- *)
Rows(a) == a.shape[1]
Cols(a) == a.shape[2]
FloatTensor(a) == [shape |-> a.shape, data |-> [float32 |-> a.data]]
Min2(a, b) == IF a <= b THEN a ELSE b

\* np.linalg.svd(w_, full_matrices=False): u is (m, k), vt is (k, n), k = min(m, n)
Svd(w_) ==
  LET m == Rows(w_)
      n == Cols(w_)
      k == Min2(m, n)
  IN [u  |-> [shape |-> <<m, k>>, data |-> [factor |-> "u", svd_of |-> w_.data]],
      vt |-> [shape |-> <<k, n>>, data |-> [factor |-> "vt", svd_of |-> w_.data]]]

\* line 63, mutated: the two factors exchanged
OrthoFactorSwapped(w_, nf, lat_dim) ==
  IF nf >= lat_dim THEN Svd(w_).vt ELSE Svd(w_).u

\* line 63: w = (u if self.n_feats >= lat_dim else vt)
OrthoFactor(w_, nf, lat_dim) ==
  IF nf >= lat_dim THEN Svd(w_).u ELSE Svd(w_).vt

\* line 57, mutated: the global state is left as it was
GeneratorSeedingSkipped(seed, np) == np

\* line 57: np.random.seed(self.seed)
GeneratorSeeding(seed, np) == NpSeed(seed)

\* GeneratorUniform.__init__ : the module and numpy's state after it
GeneratorUniform(lat_dim, nch, nf, seed, np) ==
  LET np0 == GeneratorSeeding(seed, np)
      cnt == nf * lat_dim
      w_(c) == [shape |-> <<nf, lat_dim>>,
                data |-> [dist |-> "uniform",
                          draw |-> NpBlock(NpAdvance(np0, (c - 1) * cnt), cnt)]]
  IN [self |-> [lat_dim |-> lat_dim, n_channels |-> nch, n_feats |-> nf,
                seed |-> seed,
                W |-> [c \in 1..nch |->
                         FloatTensor(OrthoFactor(w_(c), nf, lat_dim))]],
      np |-> NpAdvance(np0, nch * cnt)]

\* torch.nn.Linear without bias: x = z W^T, defined when the inner sizes agree
LinearOk(W, z) == Cols(W) = Cols(z)
Linear(W, z) ==
  [shape |-> <<Rows(z), Rows(W)>>,
   data |-> [weight |-> W.data, input |-> z.data]]

\* GeneratorUniform.forward on an np.ndarray
ForwardOk(self, z) ==
  /\ Cols(z) = self.lat_dim
  /\ \A ch \in 1..self.n_channels : LinearOk(self.W[ch], FloatTensor(z))
Forward(self, z) ==
  [ch \in 1..self.n_channels |-> Linear(self.W[ch], FloatTensor(z))]

(* ----------------------- preprocess_and_add_noise ----------------------- *)
IsList(s) == "list" \in DOMAIN s
\* lines 113-114
SnrList(s, n) == IF IsList(s) THEN s.list ELSE [c \in 1..n |-> s.scalar]

\* lines 118-119, mutated: the snr of the last channel is used
NoiseSeedLastSnr(x, snr_l, seed) ==
  seed + 3 * IntOf(RatAddInt(snr_l[Len(snr_l)], 1)) + 5 * Len(x)
       + 7 * Rows(x[1]) + 11 * Cols(x[1])

\* lines 118-119
NoiseSeed(x, snr_l, seed) ==
  seed + 3 * IntOf(RatAddInt(snr_l[1], 1)) + 5 * Len(x)
       + 7 * Rows(x[1]) + 11 * Cols(x[1])

\* line 123, mutated: every channel gets the first channel's sigma
SigmaNoiseFirst(snr_l, c_idx) == [sqrt_of |-> RatInv(snr_l[1])]

\* line 123: sigma_noise = np.sqrt(1. / snr[c_idx])
SigmaNoise(snr_l, c_idx) == [sqrt_of |-> RatInv(snr_l[c_idx])]

RECURSIVE SizeBefore(_, _)
\* number of values drawn for the channels before c_idx
SizeBefore(x, c_idx) ==
  IF c_idx = 1 THEN 0
  ELSE SizeBefore(x, c_idx - 1) + Rows(x[c_idx - 1]) * Cols(x[c_idx - 1])

preprocess_and_add_noise(x, snr_arg, seed) ==
  LET snr_l == SnrList(snr_arg, Len(x))
      x_std == [c \in 1..Len(x) |->
                  [shape |-> x[c].shape, data |-> [scaled |-> x[c].data]]]
      np0 == NpSeed(NoiseSeed(x, snr_l, seed))
      noisy(c) ==
        LET arr == x_std[c]
            eps == [dist |-> "randn",
                    draw |-> NpBlock(NpAdvance(np0, SizeBefore(x, c)),
                                     Rows(arr) * Cols(arr))]
        IN [shape |-> arr.shape,
            data |-> [clean |-> arr.data, sigma_noise |-> SigmaNoise(snr_l, c),
                      eps |-> eps]]
  IN [x_std |-> x_std,
      x_std_noisy |-> [c \in 1..Len(x) |-> noisy(c)],
      np |-> NpAdvance(np0, SizeBefore(x, Len(x) + 1))]

(* --------------------------- SyntheticDataset --------------------------- *)
NoDataset == [built |-> FALSE]

\* SyntheticDataset.__init__(**kw) run from numpy state np
SyntheticDataset(kw, np) ==
  LET seed == IF kw.train THEN TrainSeed ELSE ValSeed
      np1 == NpSeed(seed)
      z == [shape |-> <<kw.n_samples, kw.lat_dim>>,
            data |-> [dist |-> "normal",
                      draw |-> NpBlock(np1, kw.n_samples * kw.lat_dim)]]
      np2 == NpAdvance(np1, kw.n_samples * kw.lat_dim)
      gen == GeneratorUniform(kw.lat_dim, kw.n_channels, kw.n_feats,
                              GeneratorDefaultSeed, np2)
  IN IF ~ForwardOk(gen.self, z)
     THEN [self |-> [built |-> FALSE, raised |-> "forward"], np |-> gen.np]
     ELSE
       LET x == Forward(gen.self, z)
           pp == preprocess_and_add_noise(x, kw.snr, NoiseDefaultSeed)
       IN [self |-> [built |-> TRUE,
                     n_samples |-> kw.n_samples, lat_dim |-> kw.lat_dim,
                     n_feats |-> kw.n_feats, n_channels |-> kw.n_channels,
                     snr |-> kw.snr, train |-> kw.train,
                     z |-> z, generator |-> gen.self, x |-> x,
                     X |-> [c \in 1..Len(x) |-> FloatTensor(pp.x_std[c])],
                     X_noisy |-> pp.x_std_noisy],
           np |-> pp.np]

\* __len__, __getitem__, shape
DatasetLen(self) == self.n_samples
DatasetGetItem(self, item) == [c \in 1..Len(self.X) |->
                                [shape |-> <<Cols(self.X[c])>>,
                                 data |-> [row |-> item, of |-> self.X[c].data]]]
DatasetShape(self) == <<DatasetLen(self), Len(self.X)>>

(* ------------------------------ train_model ---------------------------- *)
\* image_datasets.keys(), in insertion order (lines 142-144)
Phases == <<"train", "val">>
\* the values a model's weights can take
Weights == 0..1
\* the criterion's results for a batch: total = kl - ll
Losses == {[total |-> 1, kl |-> 3, ll |-> 2],
           [total |-> 2, kl |-> 7, ll |-> 5],
           [total |-> BestLossInit, kl |-> BestLossInit + 1, ll |-> 1]}
NoLosses == [total |-> 0, kl |-> 0, ll |-> 0]
ZeroRunning == [loss |-> 0, kl |-> 0, ll |-> 0]
NoStats == [phase |-> "none", epoch |-> -1,
            loss |-> Rat(0, 1), kl |-> Rat(0, 1), ll |-> Rat(0, 1)]

RatLess(a, b) == a.num * b.den < b.num * a.den
RatEq(a, b) == a.num * b.den = b.num * a.den

\* torch.utils.data.DataLoader over a dataset of ld.len items, drop_last=False
NumBatches(ld) == (ld.len + ld.batch_size - 1) \div ld.batch_size
BatchSize(ld, i) ==
  IF i < NumBatches(ld) THEN ld.batch_size
  ELSE ld.len - (NumBatches(ld) - 1) * ld.batch_size

\* copy.deepcopy(model.state_dict()): a new object holding the current values
DeepCopyStateDict(st) == [store |-> [st EXCEPT !.snap = st.live], ref |-> "snap"]

\* line 174, mutated: one epoch too few
MoreEpochsOffByOne(e, n) == e < n - 1

\* line 174: for epoch in range(num_epochs)
MoreEpochs(e, n) == e < n

\* lines 178 and 206, mutated: every phase trains
IsTrainingAlways(phase) == TRUE

\* lines 178, 197 and 206: phase == "train"
IsTraining(phase) == phase = "train"

\* line 233, mutated: the phase is not looked at
IsBestAnyPhase(phase, epoch_loss, best) == RatLess(epoch_loss, best)

\* line 233: phase == "val" and epoch_loss < best_loss
IsBest(phase, epoch_loss, best) == phase = "val" /\ RatLess(epoch_loss, best)

\* lines 211-213, mutated: the batch size is left out
AccumulateUnweighted(r, value, size) == r + value

\* lines 211-213: running += value * inputs[0].size(0)
Accumulate(r, value, size) == r + value * size

CurPhase == Phases[phase_i]
CurLoader == dataloaders[CurPhase]

\* lines 168-170
TrainEnter ==
  /\ tpc = "call"
  /\ LET c == DeepCopyStateDict(store)
     IN /\ store' = c.store
        /\ best_model_wts' = c.ref
  /\ best_loss' = Rat(BestLossInit, 1)
  /\ epoch' = 0
  /\ tpc' = "epoch_head"
  /\ val_hist' = <<>> /\ batch_log' = <<>> /\ phase_log' = <<>> /\ ops' = <<>>
  /\ UNCHANGED <<svars, dvars, targs, phase_i, batch_i, inputs, losses, running,
                 epoch_stats, grad, train_end_wts>>

\* lines 174-177: one more epoch begins
EpochStart ==
  /\ tpc = "epoch_head"
  /\ MoreEpochs(epoch, num_epochs)
  /\ phase_i' = 1
  /\ tpc' = "phase_head"
  /\ UNCHANGED <<svars, dvars, targs, epoch, batch_i, inputs, losses, running,
                 epoch_stats, best_loss, best_model_wts, store, grad, thist>>

\* lines 177-186: a phase begins
PhaseStart ==
  /\ tpc = "phase_head"
  /\ running' = ZeroRunning
  /\ batch_i' = 0
  /\ batch_log' = <<>>
  /\ tpc' = "batch_head"
  /\ UNCHANGED <<svars, dvars, targs, epoch, phase_i, inputs, losses, epoch_stats,
                 best_loss, best_model_wts, store, grad, val_hist, phase_log,
                 train_end_wts, ops>>

\* lines 190-191: the loader yields the next batch
BatchFetch ==
  /\ tpc = "batch_head"
  /\ batch_i < NumBatches(CurLoader)
  /\ batch_i' = batch_i + 1
  /\ inputs' = BatchSize(CurLoader, batch_i + 1)
  /\ ops' = <<>>
  /\ tpc' = "zero_grad"
  /\ UNCHANGED <<svars, dvars, targs, epoch, phase_i, losses, running, epoch_stats,
                 best_loss, best_model_wts, store, grad, val_hist, batch_log,
                 phase_log, train_end_wts>>

\* line 194
ZeroGrad ==
  /\ tpc = "zero_grad"
  /\ grad' = "zero"
  /\ ops' = Append(ops, "zero_grad")
  /\ tpc' = "forward"
  /\ UNCHANGED <<svars, dvars, targs, epoch, phase_i, batch_i, inputs, losses,
                 running, epoch_stats, best_loss, best_model_wts, store, val_hist,
                 batch_log, phase_log, train_end_wts>>

\* lines 197-206: forward pass and criterion
ForwardLoss ==
  /\ tpc = "forward"
  /\ \E l \in Losses : losses' = l
  /\ ops' = ops \o <<"forward", "loss">>
  /\ tpc' = IF IsTraining(CurPhase) THEN "backward" ELSE "stats"
  /\ UNCHANGED <<svars, dvars, targs, epoch, phase_i, batch_i, inputs, running,
                 epoch_stats, best_loss, best_model_wts, store, grad, val_hist,
                 batch_log, phase_log, train_end_wts>>

\* line 207
Backward ==
  /\ tpc = "backward"
  /\ grad' = "computed"
  /\ ops' = Append(ops, "backward")
  /\ tpc' = "step"
  /\ UNCHANGED <<svars, dvars, targs, epoch, phase_i, batch_i, inputs, losses,
                 running, epoch_stats, best_loss, best_model_wts, store, val_hist,
                 batch_log, phase_log, train_end_wts>>

\* line 208: the optimizer writes new values into the model's parameters
OptimizerStep ==
  /\ tpc = "step"
  /\ \E w \in Weights : store' = [store EXCEPT !.live = w]
  /\ ops' = Append(ops, "step")
  /\ tpc' = "stats"
  /\ UNCHANGED <<svars, dvars, targs, epoch, phase_i, batch_i, inputs, losses,
                 running, epoch_stats, best_loss, best_model_wts, grad, val_hist,
                 batch_log, phase_log, train_end_wts>>

\* lines 211-213
Statistics ==
  /\ tpc = "stats"
  /\ running' = [loss |-> Accumulate(running.loss, losses.total, inputs),
                 kl |-> Accumulate(running.kl, losses.kl, inputs),
                 ll |-> Accumulate(running.ll, losses.ll, inputs)]
  /\ batch_log' = Append(batch_log, [i |-> batch_i, size |-> inputs, losses |-> losses])
  /\ tpc' = "batch_head"
  /\ UNCHANGED <<svars, dvars, targs, epoch, phase_i, batch_i, inputs, losses,
                 epoch_stats, best_loss, best_model_wts, store, grad, val_hist,
                 phase_log, train_end_wts, ops>>

\* lines 217-235: the loader is exhausted; epoch statistics, best model
PhaseEnd ==
  /\ tpc = "batch_head"
  /\ batch_i = NumBatches(CurLoader)
  /\ LET n == CurLoader.len
         epoch_loss == Rat(running.loss, n)
         best == IsBest(CurPhase, epoch_loss, best_loss)
         c == DeepCopyStateDict(store)
     IN /\ epoch_stats' = [phase |-> CurPhase, epoch |-> epoch, loss |-> epoch_loss,
                           kl |-> Rat(running.kl, n), ll |-> Rat(running.ll, n)]
        /\ best_loss' = IF best THEN epoch_loss ELSE best_loss
        /\ store' = IF best THEN c.store ELSE store
        /\ best_model_wts' = IF best THEN c.ref ELSE best_model_wts
        /\ train_end_wts' = IF CurPhase = "train" THEN store.live ELSE train_end_wts
        /\ val_hist' = IF CurPhase = "val"
                       THEN Append(val_hist,
                                   [loss |-> epoch_loss, wts |-> store.live,
                                    train_wts |-> train_end_wts, best |-> best,
                                    kept |-> store'[best_model_wts']])
                       ELSE val_hist
  /\ phase_log' = Append(phase_log, [epoch |-> epoch, phase |-> CurPhase,
                                     batches |-> [k \in 1..Len(batch_log) |->
                                                    batch_log[k].i]])
  /\ IF phase_i < Len(Phases)
     THEN /\ phase_i' = phase_i + 1
          /\ tpc' = "phase_head"
          /\ epoch' = epoch
     ELSE /\ epoch' = epoch + 1
          /\ tpc' = "epoch_head"
          /\ phase_i' = phase_i
  /\ UNCHANGED <<svars, dvars, targs, batch_i, inputs, losses, running, grad,
                 batch_log, ops>>

\* lines 237-245: after the last epoch.  `since` is bound inside the epoch loop,
\* so line 237 raises NameError when no epoch ran.
Finish ==
  /\ tpc = "epoch_head"
  /\ ~MoreEpochs(epoch, num_epochs)
  /\ IF epoch = 0
     THEN /\ tpc' = "raised"
          /\ store' = store
     ELSE /\ tpc' = "returned"
          /\ store' = [store EXCEPT !.live = store[best_model_wts]]
  /\ UNCHANGED <<svars, dvars, targs, epoch, phase_i, batch_i, inputs, losses,
                 running, epoch_stats, best_loss, best_model_wts, grad, thist>>

TrainStep ==
  \/ TrainEnter
  \/ EpochStart
  \/ PhaseStart
  \/ BatchFetch
  \/ ZeroGrad
  \/ ForwardLoss
  \/ Backward
  \/ OptimizerStep
  \/ Statistics
  \/ PhaseEnd
  \/ Finish

TrainIdle ==
  /\ epoch = 0 /\ phase_i = 1 /\ batch_i = 0 /\ inputs = 0
  /\ losses = NoLosses /\ running = ZeroRunning /\ epoch_stats = NoStats
  /\ best_loss = Rat(BestLossInit, 1) /\ best_model_wts = "live"
  /\ store = [live |-> 0, snap |-> 0]
  /\ grad = "none"
  /\ val_hist = <<>> /\ batch_log = <<>> /\ phase_log = <<>> /\ ops = <<>>
  /\ train_end_wts = 0

\* loaders over non-empty datasets (line 217 divides by the dataset length):
\* one short batch, one full batch, a full batch followed by a smaller one
Loaders == {[len |-> n, batch_size |-> LoaderBatch] :
              n \in {1, LoaderBatch, LoaderBatch + 1}}
NoLoaders == [train |-> [len |-> 1, batch_size |-> 1],
              val |-> [len |-> 1, batch_size |-> 1]]
NoModels == [mcvae |-> [built |-> FALSE, wts |-> 0, fitted |-> FALSE, displayed |-> FALSE],
             smcvae |-> [built |-> FALSE, wts |-> 0, fitted |-> FALSE, displayed |-> FALSE]]
NoParams == [n_samples |-> 1, lat_dim |-> 1, n_feats |-> 1, n_channels |-> 1]

\* train_model called with arbitrary finite loaders, scheduler=None as at line 261
InitTrain ==
  /\ pc = "caller"
  /\ environ = <<>>
  /\ np_state = NpSeed(0)
  /\ params = NoParams
  /\ image_datasets = [train |-> NoDataset, val |-> NoDataset]
  /\ models = NoModels
  /\ model_i = 0
  /\ shown = FALSE
  /\ num_epochs \in 0..MaxEpochs
  /\ dataloaders \in [{"train", "val"} -> Loaders]
  /\ tpc = "call"
  /\ TrainIdle

SpecTrain == InitTrain /\ [][TrainStep]_vars
\* train_model is sequential code: a step that can be taken is taken
FairSpecTrain == SpecTrain /\ WF_vars(TrainStep)

(* ----------------- building datasets with arbitrary arguments ----------- *)
SnrVals == {Rat(1, 2), Rat(3, 2), Rat(snr, 1)}
SnrArgs(nch) == {[scalar |-> q] : q \in SnrVals}
                \cup {[list |-> l] : l \in [1..nch -> SnrVals \ {Rat(snr, 1)}]}

Kw(p, train, snr_arg) ==
  [n_samples |-> p.n_samples, lat_dim |-> p.lat_dim, n_feats |-> p.n_feats,
   n_channels |-> p.n_channels, snr |-> snr_arg, train |-> train]

\* lines 28-31
ScriptParams == [n_samples |-> n_samples, lat_dim |-> true_lat_dims,
                 n_feats |-> n_feats, n_channels |-> n_channels]

InitData ==
  /\ pc = "caller"
  /\ environ = <<>>
  /\ np_state \in EntropyStates
  /\ params \in [n_samples : 1..MaxSamples, lat_dim : 1..MaxLatDim,
                 n_feats : 1..MaxFeats, n_channels : 1..MaxChannels]
                \cup {ScriptParams}
  /\ image_datasets = [train |-> NoDataset, val |-> NoDataset]
  /\ models = NoModels
  /\ model_i = 0
  /\ shown = FALSE
  /\ num_epochs = 0
  /\ dataloaders = NoLoaders
  /\ tpc = "idle"
  /\ TrainIdle

\* a caller constructs a SyntheticDataset and keeps it under a key: first
\* under "train", then under "val", as the script does, with any arguments
Construct(key, train, snr_arg) ==
  /\ pc = "caller"
  /\ image_datasets[key] = NoDataset
  /\ key = "val" => image_datasets["train"] # NoDataset
  /\ LET r == SyntheticDataset(Kw(params, train, snr_arg), np_state)
     IN /\ image_datasets' = [image_datasets EXCEPT ![key] = r.self]
        /\ np_state' = r.np
  /\ UNCHANGED <<svars, params, tvars>>

NextData ==
  \E key \in {"train", "val"}, train \in BOOLEAN,
     snr_arg \in SnrArgs(params.n_channels) : Construct(key, train, snr_arg)

SpecData == InitData /\ [][NextData]_vars

(* ------------------------------ the script ------------------------------ *)
\* models.items(), in insertion order (lines 152 and 156)
ModelNames == <<"mcvae", "smcvae">>

\* line 10, mutated: the value is tested, not the presence
CiModeTruthy(env) == env # <<>> /\ env[1] # ""

\* line 10: "CI_MODE" in os.environ
CiModeSet(env) == env # <<>>

\* lines 8-11
Gate ==
  /\ pc = "start"
  /\ pc' = IF CiModeSet(environ) THEN "exit" ELSE "ds_train"
  /\ UNCHANGED <<environ, models, model_i, shown, dvars, tvars>>

\* lines 128-134
BuildTrainDataset ==
  /\ pc = "ds_train"
  /\ LET r == SyntheticDataset(Kw(params, TRUE, [scalar |-> Rat(snr, 1)]), np_state)
     IN /\ image_datasets' = [image_datasets EXCEPT !.train = r.self]
        /\ np_state' = r.np
  /\ pc' = "ds_val"
  /\ UNCHANGED <<environ, models, model_i, shown, params, tvars>>

\* lines 135-145
BuildValDataset ==
  /\ pc = "ds_val"
  /\ LET r == SyntheticDataset(Kw(params, FALSE, [scalar |-> Rat(snr, 1)]), np_state)
     IN /\ image_datasets' = [image_datasets EXCEPT !.val = r.self]
        /\ np_state' = r.np
  /\ pc' = "models"
  /\ UNCHANGED <<environ, models, model_i, shown, params, tvars>>

\* lines 149-160 and 248-251: the two models, and one loader per dataset
CreateModels ==
  /\ pc = "models"
  /\ models' = [m \in DOMAIN models |-> [models[m] EXCEPT !.built = TRUE]]
  /\ dataloaders' = [ph \in {"train", "val"} |->
                       [len |-> DatasetLen(image_datasets[ph]),
                        batch_size |-> params.n_samples]]
  /\ model_i' = 1
  /\ pc' = "fit"
  /\ UNCHANGED <<environ, shown, dvars, num_epochs, tpc, tlocals, thist>>

\* lines 254-262: train_model is called on the next model
FitCall ==
  /\ pc = "fit"
  /\ tpc = "idle"
  /\ model_i <= Len(ModelNames)
  /\ store' = [store EXCEPT !.live = models[ModelNames[model_i]].wts]
  /\ tpc' = "call"
  /\ UNCHANGED <<svars, dvars, targs, epoch, phase_i, batch_i, inputs, losses,
                 running, epoch_stats, best_loss, best_model_wts, grad, thist>>

\* line 261: train_model returns; its frame is dropped
FitReturn ==
  /\ pc = "fit"
  /\ tpc = "returned"
  /\ models' = [models EXCEPT ![ModelNames[model_i]] =
                  [@ EXCEPT !.wts = store.live, !.fitted = TRUE]]
  /\ model_i' = model_i + 1
  /\ tpc' = "idle"
  /\ epoch' = 0 /\ phase_i' = 1 /\ batch_i' = 0 /\ inputs' = 0
  /\ losses' = NoLosses /\ running' = ZeroRunning /\ epoch_stats' = NoStats
  /\ best_loss' = Rat(BestLossInit, 1) /\ best_model_wts' = "live"
  /\ store' = [live |-> 0, snap |-> 0]
  /\ grad' = "none"
  /\ val_hist' = <<>> /\ batch_log' = <<>> /\ phase_log' = <<>> /\ ops' = <<>>
  /\ train_end_wts' = 0
  /\ UNCHANGED <<pc, environ, shown, dvars, targs>>

\* lines 266-269: the fit loop is over
FitDone ==
  /\ pc = "fit"
  /\ tpc = "idle"
  /\ model_i > Len(ModelNames)
  /\ model_i' = 1
  /\ pc' = "display"
  /\ UNCHANGED <<environ, models, shown, dvars, tvars>>

\* lines 271-293: latent space and generative parameters of the next model
Display ==
  /\ pc = "display"
  /\ model_i <= Len(ModelNames)
  /\ models' = [models EXCEPT ![ModelNames[model_i]] = [@ EXCEPT !.displayed = TRUE]]
  /\ model_i' = model_i + 1
  /\ UNCHANGED <<pc, environ, shown, dvars, tvars>>

\* lines 302-324
Plot ==
  /\ pc = "display"
  /\ model_i > Len(ModelNames)
  /\ shown' = TRUE
  /\ pc' = "done"
  /\ UNCHANGED <<environ, models, model_i, dvars, tvars>>

\* the CI_MODE values tried when the variable is set
CiValues == {"", "0", "true"}

\* the script's parameters (lines 28-31) are drawn from the bounded sets and
\* its `epochs` (line 35) from 1..MaxEpochs
Init ==
  /\ pc = "start"
  /\ environ \in {<<>>} \cup {<<v>> : v \in CiValues}
  /\ np_state \in EntropyStates
  /\ params \in [n_samples : 1..MaxSamples, lat_dim : {MaxLatDim},
                 n_feats : {MaxFeats}, n_channels : {MaxChannels}]
  /\ image_datasets = [train |-> NoDataset, val |-> NoDataset]
  /\ models = NoModels
  /\ model_i = 0
  /\ shown = FALSE
  /\ num_epochs \in 1..MaxEpochs
  /\ dataloaders = NoLoaders
  /\ tpc = "idle"
  /\ TrainIdle

Next ==
  \/ Gate
  \/ BuildTrainDataset
  \/ BuildValDataset
  \/ CreateModels
  \/ FitCall
  \/ FitReturn
  \/ FitDone
  \/ Display
  \/ Plot
  \/ TrainStep

Spec == Init /\ [][Next]_vars

(* ================================ claims ================================ *)
Keys == {"train", "val"}
BuiltKeys == {k \in Keys : image_datasets[k].built}
\* the snr a dataset was asked to use for channel c
SnrOfChannel(d, c) == IF "list" \in DOMAIN d.snr THEN d.snr.list[c] ELSE d.snr.scalar
\* the minimum of the initial best loss and the validation losses seen so far
LossesSeen == {Rat(BestLossInit, 1)} \cup {val_hist[e].loss : e \in 1..Len(val_hist)}
MinSeen == CHOOSE m \in LossesSeen : \A q \in LossesSeen : ~RatLess(q, m)
InTrainModel == tpc \notin {"idle", "call"}
InBatchLoop == tpc \in {"batch_head", "zero_grad", "forward", "backward", "step", "stats"}
RECURSIVE Weighted(_, _, _)
\* sum over the first k logged batches of (per-batch value * batch size)
Weighted(log, field, k) ==
  IF k = 0 THEN 0
  ELSE Weighted(log, field, k - 1) + log[k].losses[field] * log[k].size
RECURSIVE SizeSum(_, _)
SizeSum(log, k) == IF k = 0 THEN 0 ELSE SizeSum(log, k - 1) + log[k].size

\* C1: best_loss is, at every point of train_model, the minimum of its initial
\* value 1e8 and the validation epoch losses seen so far; hence it never
\* increases and no training-phase loss changes it.
C1_BestLossIsMinimum ==
  InTrainModel =>
    /\ RatEq(best_loss, MinSeen)
    /\ best_loss \in LossesSeen

\* C1 witness: a second validation phase ended with a larger loss than the
\* first, and the first one's loss is still the best.
C1_Witness ==
  /\ Len(val_hist) = 2
  /\ RatLess(val_hist[1].loss, val_hist[2].loss)
  /\ best_loss = val_hist[1].loss
  /\ Len(phase_log) = 4

\* C2 (as claimed): when train_model returns, the model holds the weights it
\* had in an epoch whose validation loss is the minimum over all epochs.
C2_RestoresBestEpoch ==
  tpc = "returned" =>
    \E e \in 1..Len(val_hist) :
      /\ \A f \in 1..Len(val_hist) : ~RatLess(val_hist[f].loss, val_hist[e].loss)
      /\ store.live = val_hist[e].wts

\* C3: two generators built with the same arguments have the same weights and
\* map the same latent input to the same outputs, whatever numpy's state was
\* before; two datasets built with the same arguments have the same z and the
\* same channel projections.
C3_Deterministic ==
  (image_datasets["train"].built /\ image_datasets["val"].built) =>
    LET a == image_datasets["train"]
        b == image_datasets["val"]
    IN /\ a.generator.W = b.generator.W
       /\ Forward(a.generator, a.z) = Forward(b.generator, a.z)
       /\ (a.train = b.train /\ a.snr = b.snr) =>
            /\ a.z = b.z
            /\ a.x = b.x
            /\ a.X = b.X

\* C3 witness: two datasets were built one after the other with the same
\* arguments (the second from the numpy state the first left behind).
C3_Witness ==
  /\ image_datasets["train"].built /\ image_datasets["val"].built
  /\ image_datasets["train"].train = image_datasets["val"].train
  /\ image_datasets["train"].snr = image_datasets["val"].snr

\* C4: a constructed dataset holds n_channels arrays of shape
\* (n_samples, n_feats), each generator weight has shape (n_feats, lat_dim),
\* len() is n_samples, shape is (n_samples, n_channels) and an item has
\* n_channels entries.
C4_Shapes ==
  \A k \in Keys :
    LET d == image_datasets[k]
    IN d # NoDataset =>
         /\ d.built
         /\ Len(d.X) = params.n_channels
         /\ \A c \in 1..Len(d.X) :
              /\ d.X[c].shape = <<params.n_samples, params.n_feats>>
              /\ d.x[c].shape = <<params.n_samples, params.n_feats>>
         /\ \A c \in DOMAIN d.generator.W :
              d.generator.W[c].shape = <<params.n_feats, params.lat_dim>>
         /\ DatasetLen(d) = params.n_samples
         /\ DatasetShape(d) = <<params.n_samples, params.n_channels>>
         /\ Len(DatasetGetItem(d, 1)) = params.n_channels

\* C4 witness: the dataset of the script's parameters: 3 arrays of shape (500, 4).
C4_Witness ==
  /\ params = ScriptParams
  /\ image_datasets["train"].built
  /\ Len(image_datasets["train"].X) = 3
  /\ image_datasets["train"].X[3].shape = <<500, 4>>

\* C5: the noise added to channel c is sqrt(1/snr[c]) times a standard normal
\* draw of the channel's shape (a scalar snr serves every channel), added to
\* the standardized array; the clean arrays returned carry no noise.
C5_NoiseVariance ==
  \A k \in BuiltKeys :
    LET d == image_datasets[k]
    IN \A c \in 1..d.n_channels :
         LET s == SnrOfChannel(d, c)
             noisy == d.X_noisy[c]
         IN /\ noisy.data.sigma_noise = [sqrt_of |-> Rat(s.den, s.num)]
            /\ noisy.data.eps.dist = "randn"
            /\ noisy.data.eps.draw.n = d.n_samples * d.n_feats
            /\ noisy.shape = d.x[c].shape
            /\ noisy.data.clean = [scaled |-> d.x[c].data]
            /\ d.X[c].data = [float32 |-> [scaled |-> d.x[c].data]]

\* C5 witness: a dataset built with a per-channel snr list whose entries differ.
C5_Witness ==
  \E k \in BuiltKeys :
    LET d == image_datasets[k]
    IN /\ "list" \in DOMAIN d.snr
       /\ d.n_channels >= 2
       /\ d.snr.list[1] # d.snr.list[2]

\* C10: the noise seed is 0 + 3*int(snr[0]+1) + 5*n_channels + 7*n_samples +
\* 11*n_feats, whatever the train flag and the other channels' snr; a training
\* and a validation dataset of the same shapes and snr get the same noise draws.
C10_NoiseSeed ==
  /\ \A k \in BuiltKeys :
       LET d == image_datasets[k]
           s == SnrOfChannel(d, 1)
           expected == 3 * ((s.num + s.den) \div s.den) + 5 * d.n_channels
                       + 7 * d.n_samples + 11 * d.n_feats
       IN \A c \in 1..d.n_channels : d.X_noisy[c].data.eps.draw.seed = expected
  /\ (BuiltKeys = Keys /\ image_datasets["train"].snr = image_datasets["val"].snr) =>
       \A c \in 1..params.n_channels :
         image_datasets["train"].X_noisy[c].data.eps
           = image_datasets["val"].X_noisy[c].data.eps

\* C10 witness: a training and a validation dataset built with the same snr
\* list whose first and last entries have different integer parts.
C10_Witness ==
  /\ BuiltKeys = Keys
  /\ image_datasets["train"].train /\ ~image_datasets["val"].train
  /\ image_datasets["train"].snr = image_datasets["val"].snr
  /\ "list" \in DOMAIN image_datasets["train"].snr
  /\ params.n_channels >= 2
  /\ image_datasets["train"].snr.list[1] # image_datasets["train"].snr.list[2]

\* C6: the running sums are the size-weighted sums of the current phase's
\* batches only, and the epoch loss, KL and log-likelihood are those sums
\* divided by the dataset length, i.e. the sample-weighted means.
C6_WeightedStatistics ==
  /\ InBatchLoop =>
       /\ running.loss = Weighted(batch_log, "total", Len(batch_log))
       /\ running.kl = Weighted(batch_log, "kl", Len(batch_log))
       /\ running.ll = Weighted(batch_log, "ll", Len(batch_log))
       /\ tpc = "batch_head" => Len(batch_log) = batch_i
  /\ (tpc = "batch_head" /\ batch_i = 0) => running = ZeroRunning
  /\ (tpc \in {"phase_head", "epoch_head", "returned"} /\ epoch_stats.phase # "none") =>
       LET n == dataloaders[epoch_stats.phase].len
           k == Len(batch_log)
       IN /\ SizeSum(batch_log, k) = n
          /\ epoch_stats.loss = Rat(Weighted(batch_log, "total", k), n)
          /\ epoch_stats.kl = Rat(Weighted(batch_log, "kl", k), n)
          /\ epoch_stats.ll = Rat(Weighted(batch_log, "ll", k), n)

\* C6 witness: a phase of two batches of different sizes and different losses
\* has ended.
C6_Witness ==
  /\ tpc \in {"phase_head", "epoch_head"}
  /\ epoch_stats.phase = "val"
  /\ epoch_stats.epoch = 1
  /\ Len(batch_log) = 2
  /\ batch_log[1].size > batch_log[2].size
  /\ batch_log[1].losses # batch_log[2].losses

\* C7: with CI_MODE present, whatever its value, the script exits before any
\* other step; with CI_MODE absent it never exits there, it can always take
\* its next step until it is done, and when it is done the datasets were
\* built, both models fitted and displayed, the plot shown.
C7_CiGate ==
  /\ environ # <<>> =>
       /\ pc \in {"start", "exit"}
       /\ image_datasets = [train |-> NoDataset, val |-> NoDataset]
       /\ models = NoModels
       /\ tpc = "idle"
       /\ ~shown
  /\ environ = <<>> =>
       /\ pc # "exit"
       /\ pc # "done" => ENABLED Next
       /\ pc \notin {"start", "ds_train"} => image_datasets["train"].built
       /\ pc \in {"display", "done"} => \A m \in DOMAIN models : models[m].fitted
       /\ pc = "done" =>
            /\ image_datasets["train"].built /\ image_datasets["val"].built
            /\ \A m \in DOMAIN models :
                 models[m].built /\ models[m].fitted /\ models[m].displayed
            /\ shown

\* C7 witness: the script has exited with CI_MODE set to the empty string.
C7_Witness == pc = "exit" /\ environ = <<"">>

\* C9: per training batch the calls are zero_grad, forward, loss, backward,
\* step, with one optimizer step; a validation batch has no backward and no
\* step and leaves the weights as the training phase left them; the weights
\* copied on a validation improvement are those of the end of that epoch's
\* training phase.
C9_WeightsChangeOnlyInTraining ==
  /\ (tpc = "stats" /\ CurPhase = "train") =>
       ops = <<"zero_grad", "forward", "loss", "backward", "step">>
  /\ (tpc = "stats" /\ CurPhase = "val") =>
       /\ ops = <<"zero_grad", "forward", "loss">>
       /\ grad = "zero"
  /\ (InBatchLoop /\ CurPhase = "val") => store.live = train_end_wts
  /\ \A e \in 1..Len(val_hist) :
       /\ val_hist[e].wts = val_hist[e].train_wts
       /\ val_hist[e].best => val_hist[e].kept = val_hist[e].train_wts

\* C9 witness: a validation phase improved on the best loss after training
\* steps had changed the weights.
C9_Witness ==
  /\ Len(val_hist) = 2
  /\ val_hist[2].best
  /\ val_hist[2].kept # val_hist[1].kept
  /\ val_hist[1].kept # 0

\* the log of a complete run: num_epochs epochs, each the train phase then the
\* val phase, each phase with every batch of its loader once and in order
ExpectedPhaseLog ==
  [k \in 1..(2 * num_epochs) |->
     LET ph == Phases[((k - 1) % 2) + 1]
     IN [epoch |-> (k - 1) \div 2, phase |-> ph,
         batches |-> [i \in 1..NumBatches(dataloaders[ph]) |-> i]]]

====
